---- MODULE Spec2Model ----
(***************************************************************************)
(* deepalert: the deduplication and task fan-out layer.                    *)
(*                                                                         *)
(*   internal/service/repository.go   RepositoryService (TakeReport,       *)
(*       SaveAlertCache, SaveReportSection, PutAttributeCache, fetches)    *)
(*   inspector/inspector_test.go      the inspector runtime's test double  *)
(*   examples/inspector/main.go       an inspector callback                *)
(*                                                                         *)
(* The record store (internal/adaptor) and the inspector runtime           *)
(* (inspector.HandleTask) are consumed through their interfaces; they are  *)
(* modelled from the interface description (sections 4.4 and 6).           *)
(***************************************************************************)
EXTENDS Integers, Sequences, FiniteSets, TLC

(***************************************************************************)
(* Bounds of the model                                                     *)
(***************************************************************************)
NumAlerts == 2
NumCalls == 3
NumReports == 2
NumAttrCalls == 2
NumSaveCalls == 2
MaxContents == 2
MaxNewAttrs == 2
MaxClock == 2
MaxStageCalls == 2

\* RepositoryService.ttl, in clock ticks (set by NewRepositoryService)
ttl == 1

Alerts == 1..NumAlerts
Calls == 1..NumCalls
AttrCalls == 1..NumAttrCalls
SaveCalls == 1..NumSaveCalls

VARIABLES
    clock,          \* wall-clock time, the source of every `now`
    alertEntries,   \* record store: the AlertEntry rows
    expired,        \* keys the store has removed by TTL so far (history)
    takeCall,       \* the TakeReport invocations, one per call slot
    attributeCaches,\* record store: the AttributeCache rows
    attrCall,       \* the PutAttributeCache invocations, one per call slot
    alertCaches,    \* record store: the AlertCache rows
    saveAlertCall,  \* the SaveAlertCache invocations, one per call slot
    reportSections, \* record store: the ReportSectionRecord rows
    saveSectionCall,\* the SaveReportSection invocations, one per call slot
    taskRun,        \* the HandleTask invocations
    Requests        \* dummySQSClient.Requests of each HandleTask invocation

vars == <<clock, alertEntries, expired, takeCall, attributeCaches, attrCall,
          alertCaches, saveAlertCall, reportSections, saveSectionCall,
          taskRun, Requests>>
taskVars == <<taskRun, Requests>>
takeVars == <<alertEntries, takeCall>>
attrVars == <<attributeCaches, attrCall>>
stageVars == <<alertCaches, saveAlertCall, reportSections, saveSectionCall>>
tables == <<alertEntries, attributeCaches, alertCaches, reportSections>>

Nil == [nil |-> TRUE]

(***************************************************************************)
(* Record store capability (adaptor.Repository)                            *)
(***************************************************************************)
\* the rows of a table stored at one (partition key, sort key)
RowsAt(table, pk, sk) == {r \in table : r.PKey = pk /\ r.SKey = sk}

\* the rows of a table under one partition key
RowsUnder(table, pk) == {r \in table : r.PKey = pk}

\* the conditional write fails with the "already exists" class
IsConditionalCheckErr(err) == err = "ConditionalCheckFailed"

\* put(record, conditionalOnAbsent = TRUE): the outcomes the store can give.
\* A row at the key makes it fail with the "already exists" class; any put can
\* fail with another storage error; a failed put leaves the table as it was.
PutIfAbsent(table, rec) ==
    IF RowsAt(table, rec.PKey, rec.SKey) # {}
    THEN {[err |-> "ConditionalCheckFailed", table |-> table],
          [err |-> "StoreFailure", table |-> table]}
    ELSE {[err |-> "nil", table |-> table \cup {rec}],
          [err |-> "StoreFailure", table |-> table]}

\* put(record, conditionalOnAbsent = FALSE): the row replaces what is stored at
\* its key, or the put fails with a storage error
PutRow(table, rec) ==
    {[err |-> "nil", table |-> (table \ RowsAt(table, rec.PKey, rec.SKey)) \cup {rec}],
     [err |-> "StoreFailure", table |-> table]}

\* get(partitionKey, sortKey): the row, or an error when there is none or the
\* storage fails
GetRow(table, pk, sk) ==
    {[err |-> "nil", row |-> r] : r \in RowsAt(table, pk, sk)}
        \cup {[err |-> "StoreFailure", row |-> Nil]}

\* the ways to list a finite set of rows
Orderings(S) ==
    {f \in [1..Cardinality(S) -> S] : \A i, j \in 1..Cardinality(S) : f[i] = f[j] => i = j}

\* scan(partitionKey): all the rows under the partition key, in the order the
\* store delivers them, or a storage error
GetRows(table, pk) ==
    {[err |-> "nil", rows |-> f] : f \in Orderings(RowsUnder(table, pk))}
        \cup {[err |-> "StoreFailure", rows |-> <<>>]}

(***************************************************************************)
(* Dedup & Report Correlator: TakeReport                                   *)
(***************************************************************************)
\* alert.AlertID(): the stable identity of an alert
AlertID(alert) == <<"alertid", alert>>

\* uuid.New() of invocation c: one fresh value per invocation
newReportID(c) == <<"uuid", c>>

\* mutant: the sort key is drawn per call instead of being the constant
NewAlertEntry_RandomSKey(alertID, now, reportID) ==
    [PKey |-> <<"alertmap/", alertID>>,
     SKey |-> reportID,
     ExpiresAt |-> now + ttl,
     CreatedAt |-> now,
     ReportID |-> reportID]

\* lines 39-47: the candidate AlertEntry
NewAlertEntry(alertID, now, reportID) ==
    [PKey |-> <<"alertmap/", alertID>>,
     SKey |-> <<"Fixed">>,
     ExpiresAt |-> now + ttl,
     CreatedAt |-> now,
     ReportID |-> reportID]

\* mutant: the reuse path returns the ReportID generated by this call
ReportMore_OwnID(entry, existedEntry) ==
    [ID |-> entry.ReportID,
     Status |-> "More",
     CreatedAt |-> existedEntry.CreatedAt]

\* mutant: the reuse path returns the creation time of this call's candidate
ReportMore_OwnCreatedAt(entry, existedEntry) ==
    [ID |-> existedEntry.ReportID,
     Status |-> "More",
     CreatedAt |-> entry.CreatedAt]

\* lines 56-60: the Report of the reuse path
ReportMore(entry, existedEntry) ==
    [ID |-> existedEntry.ReportID,
     Status |-> "More",
     CreatedAt |-> existedEntry.CreatedAt]

\* lines 66-70: the Report of the creating call
ReportNew(entry, now) ==
    [ID |-> entry.ReportID,
     Status |-> "New",
     CreatedAt |-> now]

IdleTake == [pc |-> "idle", alert |-> 0, now |-> 0, entry |-> Nil,
             report |-> Nil, err |-> "nil", puts |-> 0, gets |-> 0,
             putErr |-> "nil", getErr |-> "nil"]

\* mutant: every failure of the put is taken for the "already exists" class
TakeReportAfterPut_AnyErrIsExists(call, err) ==
    IF err = "nil"
    THEN [call EXCEPT !.pc = "done", !.puts = @ + 1, !.putErr = err,
                      !.report = ReportNew(call.entry, call.now)]
    ELSE [call EXCEPT !.pc = "get", !.puts = @ + 1, !.putErr = err]

\* mutant: a put that failed with a storage error is tried again
TakeReportAfterPut_Retry(call, err) ==
    IF err = "nil"
    THEN [call EXCEPT !.pc = "done", !.puts = @ + 1, !.putErr = err,
                      !.report = ReportNew(call.entry, call.now)]
    ELSE IF IsConditionalCheckErr(err)
    THEN [call EXCEPT !.pc = "get", !.puts = @ + 1, !.putErr = err]
    ELSE [call EXCEPT !.pc = "put", !.puts = @ + 1, !.putErr = err]

\* lines 49-50 and 63-70: the call after PutAlertEntry has returned err
TakeReportAfterPut(call, err) ==
    IF err = "nil"
    THEN [call EXCEPT !.pc = "done", !.puts = @ + 1, !.putErr = err,
                      !.report = ReportNew(call.entry, call.now)]
    ELSE IF IsConditionalCheckErr(err)
    THEN [call EXCEPT !.pc = "get", !.puts = @ + 1, !.putErr = err]
    ELSE [call EXCEPT !.pc = "done", !.puts = @ + 1, !.putErr = err, !.err = "put"]

\* lines 51-60: the call after GetAlertEntry has returned (existedEntry, err)
TakeReportAfterGet(call, existedEntry, err) ==
    IF err # "nil"
    THEN [call EXCEPT !.pc = "done", !.gets = @ + 1, !.getErr = err, !.err = "get"]
    ELSE [call EXCEPT !.pc = "done", !.gets = @ + 1, !.getErr = err,
                      !.report = ReportMore(call.entry, existedEntry)]

\* lines 35-47: the call is entered and the candidate entry is built (call
\* slots are names of invocations: they are taken in order)
TakeReportBegin(c, alert, now) ==
    /\ takeCall[c].pc = "idle"
    /\ \A d \in Calls : d < c => takeCall[d].pc # "idle"
    /\ takeCall' = [takeCall EXCEPT ![c] =
          [@ EXCEPT !.pc = "put", !.alert = alert, !.now = now,
                    !.entry = NewAlertEntry(AlertID(alert), now, newReportID(c))]]
    /\ UNCHANGED <<clock, alertEntries, expired, attrVars, stageVars, taskVars>>

\* line 49: the conditional put
TakeReportPut(c) ==
    /\ takeCall[c].pc = "put"
    /\ \E out \in PutIfAbsent(alertEntries, takeCall[c].entry) :
          /\ alertEntries' = out.table
          /\ takeCall' = [takeCall EXCEPT ![c] = TakeReportAfterPut(@, out.err)]
    /\ UNCHANGED <<clock, expired, attrVars, stageVars, taskVars>>

\* line 51: the read of the existing entry
TakeReportGet(c) ==
    /\ takeCall[c].pc = "get"
    /\ \E out \in GetRow(alertEntries, takeCall[c].entry.PKey, takeCall[c].entry.SKey) :
          takeCall' = [takeCall EXCEPT ![c] = TakeReportAfterGet(@, out.row, out.err)]
    /\ UNCHANGED <<clock, alertEntries, expired, attrVars, stageVars, taskVars>>

(***************************************************************************)
(* Attribute Dedup Cache: PutAttributeCache                                *)
(***************************************************************************)
\* the reports the attribute and staging operations are called for
ReportIDs == {newReportID(n) : n \in 1..NumReports}

\* deepalert.Attribute values; Timestamp is a *time.Time: <<>> is nil, <<t>>
\* points to t.
\* the attribute of the test's task (inspector_test.go lines 88-92)
attrDst ==
    [Type |-> "ipaddr", Key |-> "dst", Value |-> "192.10.0.1",
     Context |-> "", Timestamp |-> <<>>]

\* the same type, key and value with a context and a timestamp
attrDstLocal ==
    [Type |-> "ipaddr", Key |-> "dst", Value |-> "192.10.0.1",
     Context |-> "local", Timestamp |-> <<0>>]

\* the new attribute of the test's inspector (inspector_test.go lines 26-30)
newAttr ==
    [Type |-> "username", Key |-> "username", Value |-> "mizutani",
     Context |-> "", Timestamp |-> <<>>]

AttrChoices == {attrDst, attrDstLocal, newAttr}

\* attr.Hash(): deterministic, over type, key and value
Hash(attr) == <<"hash", attr.Type, attr.Key, attr.Value>>

\* mutant: the partition key does not cover the report
toAttributeCacheKey_NoReport(reportID) == <<"attribute/", <<>>>>

\* lines 183-185
toAttributeCacheKey(reportID) == <<"attribute/", reportID>>

\* mutant: the sort key also covers the context
NewAttributeCache_ContextInKey(reportID, attr, now) ==
    [PKey |-> toAttributeCacheKey(reportID),
     SKey |-> <<Hash(attr), attr.Context>>,
     ExpiresAt |-> now + ttl,
     Timestamp |-> IF attr.Timestamp # <<>> THEN attr.Timestamp[1] ELSE now,
     AttrKey |-> attr.Key,
     AttrType |-> attr.Type,
     AttrValue |-> attr.Value,
     AttrContext |-> attr.Context]

\* lines 190-208: the AttributeCache row of one call
NewAttributeCache(reportID, attr, now) ==
    [PKey |-> toAttributeCacheKey(reportID),
     SKey |-> Hash(attr),
     ExpiresAt |-> now + ttl,
     Timestamp |-> IF attr.Timestamp # <<>> THEN attr.Timestamp[1] ELSE now,
     AttrKey |-> attr.Key,
     AttrType |-> attr.Type,
     AttrValue |-> attr.Value,
     AttrContext |-> attr.Context]

\* mutant: the "already exists" class is reported as created
PutAttributeCacheReturn_AlwaysTrue(err) ==
    IF err = "nil" \/ IsConditionalCheckErr(err)
    THEN [created |-> TRUE, err |-> "nil"]
    ELSE [created |-> FALSE, err |-> "put"]

\* mutant: a storage failure is reported as "already exists"
PutAttributeCacheReturn_ErrorDropped(err) ==
    IF err = "nil" THEN [created |-> TRUE, err |-> "nil"]
    ELSE [created |-> FALSE, err |-> "nil"]

\* lines 210-219: what the call returns for the outcome of the put
PutAttributeCacheReturn(err) ==
    IF err = "nil" THEN [created |-> TRUE, err |-> "nil"]
    ELSE IF IsConditionalCheckErr(err) THEN [created |-> FALSE, err |-> "nil"]
    ELSE [created |-> FALSE, err |-> "put"]

IdleAttr == [pc |-> "idle", reportID |-> <<>>, attr |-> Nil, now |-> 0,
             created |-> FALSE, err |-> "nil", puts |-> 0, putErr |-> "nil"]

\* mutant: a put that meets a stored row replaces it
PutAttributeCache_Overwrite(c, reportID, attr, now) ==
    /\ attrCall[c].pc = "idle"
    /\ \A d \in AttrCalls : d < c => attrCall[d].pc # "idle"
    /\ \E out \in PutIfAbsent(attributeCaches, NewAttributeCache(reportID, attr, now)) :
          /\ attributeCaches' =
                IF IsConditionalCheckErr(out.err)
                THEN (attributeCaches
                        \ RowsAt(attributeCaches, toAttributeCacheKey(reportID), Hash(attr)))
                        \cup {NewAttributeCache(reportID, attr, now)}
                ELSE out.table
          /\ attrCall' = [attrCall EXCEPT ![c] =
                [pc |-> "done", reportID |-> reportID, attr |-> attr, now |-> now,
                 created |-> PutAttributeCacheReturn(out.err).created,
                 err |-> PutAttributeCacheReturn(out.err).err,
                 puts |-> 1, putErr |-> out.err]]
    /\ UNCHANGED <<clock, expired, takeVars, stageVars, taskVars>>

\* lines 189-220: one PutAttributeCache call; its only store operation is the
\* conditional put
PutAttributeCache(c, reportID, attr, now) ==
    /\ attrCall[c].pc = "idle"
    /\ \A d \in AttrCalls : d < c => attrCall[d].pc # "idle"
    /\ \E out \in PutIfAbsent(attributeCaches, NewAttributeCache(reportID, attr, now)) :
          /\ attributeCaches' = out.table
          /\ attrCall' = [attrCall EXCEPT ![c] =
                [pc |-> "done", reportID |-> reportID, attr |-> attr, now |-> now,
                 created |-> PutAttributeCacheReturn(out.err).created,
                 err |-> PutAttributeCacheReturn(out.err).err,
                 puts |-> 1, putErr |-> out.err]]
    /\ UNCHANGED <<clock, expired, takeVars, stageVars, taskVars>>

\* mutant: every attribute points to the timestamp of the row read last
FetchAttributeCache_SharedTimestamp(reportID) ==
    {IF out.err # "nil"
     THEN [err |-> "get", attrs |-> <<>>]
     ELSE [err |-> "nil",
           attrs |-> [i \in 1..Len(out.rows) |->
                        [Type |-> out.rows[i].AttrType,
                         Key |-> out.rows[i].AttrKey,
                         Value |-> out.rows[i].AttrValue,
                         Context |-> out.rows[i].AttrContext,
                         Timestamp |-> <<out.rows[Len(out.rows)].Timestamp>>]]] :
        out \in GetRows(attributeCaches, toAttributeCacheKey(reportID))}

\* lines 223-245: what FetchAttributeCache(reportID) can return on the stored
\* rows: an error of the scan, or one attribute per row, in the order of the
\* scan, each pointing to the timestamp of its own row
FetchAttributeCache(reportID) ==
    {IF out.err # "nil"
     THEN [err |-> "get", attrs |-> <<>>]
     ELSE [err |-> "nil",
           attrs |-> [i \in 1..Len(out.rows) |->
                        [Type |-> out.rows[i].AttrType,
                         Key |-> out.rows[i].AttrKey,
                         Value |-> out.rows[i].AttrValue,
                         Context |-> out.rows[i].AttrContext,
                         Timestamp |-> <<out.rows[i].Timestamp>>]]] :
        out \in GetRows(attributeCaches, toAttributeCacheKey(reportID))}

(***************************************************************************)
(* Content & Attribute Staging: SaveAlertCache, SaveReportSection          *)
(***************************************************************************)
\* json.Marshal / json.Unmarshal: the encoded payload is tagged; anything
\* else does not decode
Marshal(v) == <<"json", v>>
Unmarshal(raw) ==
    IF raw[1] = "json" THEN [err |-> "nil", value |-> raw[2]]
    ELSE [err |-> "SerializationFailure", value |-> Nil]

\* uuid.New() of one staging invocation
newUUID(kind, c) == <<"uuid", kind, c>>

\* mutant: the sort key has no random part
toAlertCacheKey_NoUUID(reportID, uuid) ==
    <<<<"alert/", reportID>>, <<"cache/">>>>

\* lines 77-79
toAlertCacheKey(reportID, uuid) ==
    <<<<"alert/", reportID>>, <<"cache/", uuid>>>>

\* lines 82-93: the AlertCache row of one call
NewAlertCache(reportID, alert, now, uuid) ==
    [PKey |-> toAlertCacheKey(reportID, uuid)[1],
     SKey |-> toAlertCacheKey(reportID, uuid)[2],
     AlertData |-> Marshal(alert),
     ExpiresAt |-> now + ttl]

IdleSaveAlert == [pc |-> "idle", reportID |-> <<>>, item |-> 0, now |-> 0,
                  err |-> "nil"]

\* lines 81-100: one SaveAlertCache call; its only store operation is the put
SaveAlertCache(c, reportID, alert, now) ==
    /\ saveAlertCall[c].pc = "idle"
    /\ \A d \in SaveCalls : d < c => saveAlertCall[d].pc # "idle"
    /\ \E out \in PutRow(alertCaches,
                         NewAlertCache(reportID, alert, now, newUUID("alert", c))) :
          /\ alertCaches' = out.table
          /\ saveAlertCall' = [saveAlertCall EXCEPT ![c] =
                [pc |-> "done", reportID |-> reportID, item |-> alert, now |-> now,
                 err |-> IF out.err = "nil" THEN "nil" ELSE "put"]]
    /\ UNCHANGED <<clock, expired, takeVars, attrVars, reportSections, saveSectionCall,
                   taskVars>>

\* mutant: a row that does not decode is skipped
FetchAlertCache_SkipCorrupt(reportID) ==
    {IF out.err # "nil"
     THEN [err |-> "get", alerts |-> <<>>]
     ELSE [err |-> "nil",
           alerts |-> LET good == SelectSeq(out.rows,
                                            LAMBDA r : Unmarshal(r.AlertData).err = "nil")
                      IN  [i \in 1..Len(good) |-> Unmarshal(good[i].AlertData).value]] :
        out \in GetRows(alertCaches, toAlertCacheKey(reportID, <<>>)[1])}

\* lines 102-120: what FetchAlertCache(reportID) can return on the stored rows:
\* an error of the scan; an error and no alert when a row does not decode;
\* else one alert per row, in the order of the scan
FetchAlertCache(reportID) ==
    {IF out.err # "nil"
     THEN [err |-> "get", alerts |-> <<>>]
     ELSE IF \E i \in 1..Len(out.rows) : Unmarshal(out.rows[i].AlertData).err # "nil"
     THEN [err |-> "unmarshal", alerts |-> <<>>]
     ELSE [err |-> "nil",
           alerts |-> [i \in 1..Len(out.rows) |-> Unmarshal(out.rows[i].AlertData).value]] :
        out \in GetRows(alertCaches, toAlertCacheKey(reportID, <<>>)[1])}

\* the host report of the test's inspector (inspector_test.go lines 21-24)
hostReport == [IPAddr |-> <<"10.1.2.3">>, Owner |-> <<"superman">>, HostName |-> <<>>]

\* deepalert.ReportSection values
SectionChoices ==
    {[ReportID |-> rid, Author |-> "blue", Attribute |-> attr, Content |-> hostReport] :
        rid \in ReportIDs, attr \in AttrChoices}

IdleSaveSection == [pc |-> "idle", reportID |-> <<>>, item |-> Nil, now |-> 0,
                    err |-> "nil"]

\* mutant: the sort key has no random part
toReportSectionRecord_NoUUID(reportID, section, uuid) ==
    <<<<"content/", reportID>>,
      IF section # <<>> THEN <<Hash(section[1].Attribute)>> ELSE <<>>>>

\* lines 126-133
toReportSectionRecord(reportID, section, uuid) ==
    <<<<"content/", reportID>>,
      IF section # <<>> THEN <<Hash(section[1].Attribute), uuid>> ELSE <<>>>>

\* lines 136-149: the ReportSectionRecord row of one call
NewReportSectionRecord(section, now, uuid) ==
    [PKey |-> toReportSectionRecord(section.ReportID, <<section>>, uuid)[1],
     SKey |-> toReportSectionRecord(section.ReportID, <<section>>, uuid)[2],
     ExpiresAt |-> now + ttl,
     Data |-> Marshal(section)]

\* lines 135-156: one SaveReportSection call; its only store operation is the put
SaveReportSection(c, section, now) ==
    /\ saveSectionCall[c].pc = "idle"
    /\ \A d \in SaveCalls : d < c => saveSectionCall[d].pc # "idle"
    /\ \E out \in PutRow(reportSections,
                         NewReportSectionRecord(section, now, newUUID("section", c))) :
          /\ reportSections' = out.table
          /\ saveSectionCall' = [saveSectionCall EXCEPT ![c] =
                [pc |-> "done", reportID |-> section.ReportID, item |-> section,
                 now |-> now, err |-> IF out.err = "nil" THEN "nil" ELSE "put"]]
    /\ UNCHANGED <<clock, expired, takeVars, attrVars, alertCaches, saveAlertCall,
                   taskVars>>

\* lines 158-177: what FetchReportSection(reportID) can return on the stored
\* rows: the error of the scan; an error and no section when a row does not
\* decode; else one section per row, in the order of the scan
FetchReportSection(reportID) ==
    {IF out.err # "nil"
     THEN [err |-> "get", sections |-> <<>>]
     ELSE IF \E i \in 1..Len(out.rows) : Unmarshal(out.rows[i].Data).err # "nil"
     THEN [err |-> "unmarshal", sections |-> <<>>]
     ELSE [err |-> "nil",
           sections |-> [i \in 1..Len(out.rows) |-> Unmarshal(out.rows[i].Data).value]] :
        out \in GetRows(reportSections, toReportSectionRecord(reportID, <<>>, <<>>)[1])}

\* a payload that json.Unmarshal rejects
Undecodable == <<"not json">>

\* a stored AlertCache row comes to hold a payload that does not decode
CorruptAlertCache ==
    /\ \E r \in alertCaches :
          /\ r.AlertData # Undecodable
          /\ alertCaches' = (alertCaches \ {r}) \cup {[r EXCEPT !.AlertData = Undecodable]}
    /\ UNCHANGED <<clock, expired, takeVars, attrVars, saveAlertCall, reportSections,
                   saveSectionCall, taskVars>>

\* a stored ReportSectionRecord row comes to hold a payload that does not decode
CorruptReportSection ==
    /\ \E r \in reportSections :
          /\ r.Data # Undecodable
          /\ reportSections' = (reportSections \ {r}) \cup {[r EXCEPT !.Data = Undecodable]}
    /\ UNCHANGED <<clock, expired, takeVars, attrVars, alertCaches, saveAlertCall,
                   saveSectionCall, taskVars>>

(***************************************************************************)
(* Task Dispatcher / Inspector Runtime: HandleTask                         *)
(***************************************************************************)
\* inspector.Arguments of the test (inspector_test.go lines 77-84)
Author == "blue"
AttrQueueURL == "https://sqs.ap-northeast-1.amazonaws.com/123456789xxx/attribute-queue"
ContentQueueURL == "https://sqs.ap-northeast-1.amazonaws.com/123456789xxx/content-queue"

\* the HandleTask invocations: a delivery of a task and another delivery that
\* runs beside or after it
TaskRuns == {"delivery", "redelivery"}

\* deepalert.Task values
Tasks == [ReportID : ReportIDs, Attribute : {attrDst, newAttr}]

\* what a callback returns: (result, err); result is a *TaskResult, <<>> is nil
NilResult == [err |-> "nil", result |-> <<>>]

\* inspector_test.go lines 17-36
dummyInspector(attr) ==
    [err |-> "nil",
     result |-> <<[Contents |-> <<hostReport>>, NewAttributes |-> <<newAttr>>]>>]

\* examples/inspector/main.go lines 11-14: a *string, never nil
lookupHostname(value) == <<"resolved.hostname">>

\* mutant: the type check is dropped
handler_NoTypeCheck(attr) ==
    [err |-> "nil",
     result |-> <<[Contents |-> <<[IPAddr |-> <<>>, Owner |-> <<>>,
                                  HostName |-> <<lookupHostname(attr.Value)[1]>>]>>,
                   NewAttributes |-> <<>>]>>]

\* examples/inspector/main.go lines 16-37
handler(attr) ==
    IF attr.Type # "ipaddr" THEN NilResult
    ELSE IF lookupHostname(attr.Value) = <<>> THEN NilResult
    ELSE [err |-> "nil",
          result |-> <<[Contents |-> <<[IPAddr |-> <<>>, Owner |-> <<>>,
                                       HostName |-> <<lookupHostname(attr.Value)[1]>>]>>,
                        NewAttributes |-> <<>>]>>]

\* the i-th content and the i-th new attribute an inspector returns
ContentAt(i) ==
    [IPAddr |-> <<>>, Owner |-> [j \in 1..i |-> "superman"], HostName |-> <<>>]
NewAttrAt(i) ==
    IF i = 1 THEN newAttr
    ELSE IF i = 2 THEN attrDstLocal
    ELSE [newAttr EXCEPT !.Context = "seen again"]

\* any inspector: an error, a nil result, or a TaskResult with up to
\* MaxContents contents and up to MaxNewAttrs new attributes
anyInspector(attr) ==
    {[err |-> "BusinessLogicFailure", result |-> <<>>], NilResult}
        \cup {[err |-> "nil",
               result |-> <<[Contents |-> [i \in 1..n |-> ContentAt(i)],
                             NewAttributes |-> [i \in 1..m |-> NewAttrAt(i)]]>>] :
                 n \in 0..MaxContents, m \in 0..MaxNewAttrs}

Handlers == {"dummyInspector", "handler", "anyInspector"}

\* what args.Handler(ctx, task.Attribute) can return
HandlerReturns(h, attr) ==
    IF h = "dummyInspector" THEN {dummyInspector(attr)}
    ELSE IF h = "handler" THEN {handler(attr)}
    ELSE anyInspector(attr)

\* mutant: the request is put in front of the recorded ones
SendMessage_Prepend(requests, req) == <<req>> \o requests

\* inspector_test.go lines 58-61: the client records the request
SendMessage(requests, req) == Append(requests, req)

\* the message of one content item: {reportID, author, attribute, content}
ContentMessage(task, content) ==
    [QueueUrl |-> ContentQueueURL,
     MessageBody |-> Marshal([ReportID |-> task.ReportID, Author |-> Author,
                              Attribute |-> task.Attribute, Content |-> content])]

\* mutant: the message carries the attribute of the task
AttributeMessage_TaskAttribute(task, attr) ==
    [QueueUrl |-> AttrQueueURL,
     MessageBody |-> Marshal([ReportID |-> task.ReportID, Attribute |-> task.Attribute])]

\* the message of one new attribute: {reportID, attribute}
AttributeMessage(task, attr) ==
    [QueueUrl |-> AttrQueueURL,
     MessageBody |-> Marshal([ReportID |-> task.ReportID, Attribute |-> attr])]

\* the messages of a TaskResult: the contents in the order returned, then the
\* new attributes in the order returned
OutMessages(task, result) ==
    [i \in 1..Len(result.Contents) |-> ContentMessage(task, result.Contents[i])]
        \o [i \in 1..Len(result.NewAttributes) |->
               AttributeMessage(task, result.NewAttributes[i])]

\* mutant: a callback error is dropped
AfterCallback_ErrorDropped(task, ret) ==
    IF ret.result = <<>>
    THEN [state |-> "Succeeded", err |-> <<>>, pending |-> <<>>]
    ELSE [state |-> "Invoking", err |-> <<>>,
          pending |-> OutMessages(task, ret.result[1])]

\* what the runtime does with the callback's return: an error fails the task,
\* a nil result ends it, a result is published
AfterCallback(task, ret) ==
    IF ret.err # "nil"
    THEN [state |-> "Failed", err |-> <<"Handler", ret.err>>, pending |-> <<>>]
    ELSE IF ret.result = <<>>
    THEN [state |-> "Succeeded", err |-> <<>>, pending |-> <<>>]
    ELSE [state |-> "Invoking", err |-> <<>>,
          pending |-> OutMessages(task, ret.result[1])]

\* mutant: after a failed publish the runtime goes on with the next message
AfterPublishFailure_GoOn(pending) ==
    [state |-> "Invoking",
     err |-> <<"QueueFailure", Head(pending).QueueUrl>>,
     pending |-> Tail(pending)]

\* a failed publish aborts the call with an error naming the queue
AfterPublishFailure(pending) ==
    [state |-> "Failed",
     err |-> <<"QueueFailure", Head(pending).QueueUrl>>,
     pending |-> <<>>]

IdleTask == [state |-> "idle", task |-> Nil, handler |-> "", ret |-> NilResult,
             invoked |-> 0, pending |-> <<>>, err |-> <<>>, failedAt |-> 0]

\* Received: a task arrives from the task queue
TaskReceive(t, task, h) ==
    /\ taskRun[t].state = "idle"
    /\ taskRun' = [taskRun EXCEPT ![t] =
          [@ EXCEPT !.state = "Received", !.task = task, !.handler = h]]
    /\ UNCHANGED <<clock, expired, takeVars, attrVars, stageVars, Requests>>

\* Invoking: the callback is called once, synchronously, and returns
TaskInvoke(t) ==
    /\ taskRun[t].state = "Received"
    /\ \E ret \in HandlerReturns(taskRun[t].handler, taskRun[t].task.Attribute) :
          taskRun' = [taskRun EXCEPT ![t] =
              [@ EXCEPT !.ret = ret, !.invoked = @ + 1,
                        !.state = AfterCallback(taskRun[t].task, ret).state,
                        !.err = AfterCallback(taskRun[t].task, ret).err,
                        !.pending = AfterCallback(taskRun[t].task, ret).pending]]
    /\ UNCHANGED <<clock, expired, takeVars, attrVars, stageVars, Requests>>

\* the next message is published, or its publish fails; with nothing left to
\* publish the task has succeeded
TaskPublish(t) ==
    /\ taskRun[t].state = "Invoking"
    /\ IF taskRun[t].pending = <<>>
       THEN /\ taskRun' = [taskRun EXCEPT ![t].state = "Succeeded"]
            /\ UNCHANGED Requests
       ELSE \E ok \in BOOLEAN :
              IF ok
              THEN /\ Requests' = [Requests EXCEPT ![t] =
                          SendMessage(@, Head(taskRun[t].pending))]
                   /\ taskRun' = [taskRun EXCEPT ![t].pending = Tail(@)]
              ELSE /\ UNCHANGED Requests
                   /\ taskRun' = [taskRun EXCEPT ![t] =
                          [@ EXCEPT
                             !.state = AfterPublishFailure(taskRun[t].pending).state,
                             !.err = AfterPublishFailure(taskRun[t].pending).err,
                             !.pending = AfterPublishFailure(taskRun[t].pending).pending,
                             !.failedAt = Len(Requests[t]) + 1]]
    /\ UNCHANGED <<clock, expired, takeVars, attrVars, stageVars>>

(***************************************************************************)
(* Time and the store's TTL garbage collection                             *)
(***************************************************************************)
Tick ==
    /\ clock < MaxClock
    /\ clock' = clock + 1
    /\ UNCHANGED <<expired, takeVars, attrVars, stageVars, taskVars>>

\* the store removes a row whose expiry time has passed, at some later moment
ExpireAlertEntry ==
    /\ \E r \in alertEntries :
          /\ r.ExpiresAt < clock
          /\ alertEntries' = alertEntries \ {r}
          /\ expired' = expired \cup {<<r.PKey, r.SKey>>}
    /\ UNCHANGED <<clock, takeCall, attrVars, stageVars, taskVars>>

ExpireAttributeCache ==
    /\ \E r \in attributeCaches :
          /\ r.ExpiresAt < clock
          /\ attributeCaches' = attributeCaches \ {r}
          /\ expired' = expired \cup {<<r.PKey, r.SKey>>}
    /\ UNCHANGED <<clock, takeVars, attrCall, stageVars, taskVars>>

ExpireAlertCache ==
    /\ \E r \in alertCaches :
          /\ r.ExpiresAt < clock
          /\ alertCaches' = alertCaches \ {r}
          /\ expired' = expired \cup {<<r.PKey, r.SKey>>}
    /\ UNCHANGED <<clock, takeVars, attrVars, saveAlertCall, reportSections,
                   saveSectionCall, taskVars>>

ExpireReportSection ==
    /\ \E r \in reportSections :
          /\ r.ExpiresAt < clock
          /\ reportSections' = reportSections \ {r}
          /\ expired' = expired \cup {<<r.PKey, r.SKey>>}
    /\ UNCHANGED <<clock, takeVars, attrVars, alertCaches, saveAlertCall,
                   saveSectionCall, taskVars>>

Init ==
    /\ clock = 0
    /\ alertEntries = {}
    /\ expired = {}
    /\ takeCall = [c \in Calls |-> IdleTake]
    /\ attributeCaches = {}
    /\ attrCall = [c \in AttrCalls |-> IdleAttr]
    /\ alertCaches = {}
    /\ saveAlertCall = [c \in SaveCalls |-> IdleSaveAlert]
    /\ reportSections = {}
    /\ saveSectionCall = [c \in SaveCalls |-> IdleSaveSection]
    /\ taskRun = [t \in TaskRuns |-> IdleTask]
    /\ Requests = [t \in TaskRuns |-> <<>>]

NextTake ==
    \/ Tick
    \/ ExpireAlertEntry
    \/ \E c \in Calls : \E alert \in Alerts : TakeReportBegin(c, alert, clock)
    \/ \E c \in Calls : TakeReportPut(c)
    \/ \E c \in Calls : TakeReportGet(c)

SpecTake == Init /\ [][NextTake]_vars

NextAttr ==
    \/ Tick
    \/ ExpireAttributeCache
    \/ \E c \in AttrCalls : \E reportID \in ReportIDs : \E attr \in AttrChoices :
          PutAttributeCache(c, reportID, attr, clock)

SpecAttr == Init /\ [][NextAttr]_vars

NextTask ==
    \/ \E t \in TaskRuns : \E task \in Tasks : \E h \in Handlers : TaskReceive(t, task, h)
    \/ \E t \in TaskRuns : TaskInvoke(t)
    \/ \E t \in TaskRuns : TaskPublish(t)

SpecTask == Init /\ [][NextTask]_vars

(***************************************************************************)
(* Redelivery: one operation is executed and, after it has returned, the   *)
(* transport delivers the same request again (same arguments, slot 2)      *)
(***************************************************************************)
NoTakeCall == \A c \in Calls : takeCall[c].pc = "idle"
NoAttrCall == \A c \in AttrCalls : attrCall[c].pc = "idle"
NoSaveAlertCall == \A c \in SaveCalls : saveAlertCall[c].pc = "idle"
NoSaveSectionCall == \A c \in SaveCalls : saveSectionCall[c].pc = "idle"

FirstTakeReport ==
    /\ NoAttrCall /\ NoSaveAlertCall /\ NoSaveSectionCall
    /\ \E alert \in Alerts : TakeReportBegin(1, alert, clock)

RedeliverTakeReport ==
    /\ takeCall[1].pc = "done"
    /\ TakeReportBegin(2, takeCall[1].alert, takeCall[1].now)

FirstPutAttributeCache ==
    /\ NoTakeCall /\ NoSaveAlertCall /\ NoSaveSectionCall
    /\ \E reportID \in ReportIDs : \E attr \in AttrChoices :
          PutAttributeCache(1, reportID, attr, clock)

RedeliverPutAttributeCache ==
    /\ attrCall[1].pc = "done"
    /\ PutAttributeCache(2, attrCall[1].reportID, attrCall[1].attr, attrCall[1].now)

FirstSaveAlertCache ==
    /\ NoTakeCall /\ NoAttrCall /\ NoSaveSectionCall
    /\ \E reportID \in ReportIDs : \E alert \in Alerts :
          SaveAlertCache(1, reportID, alert, clock)

RedeliverSaveAlertCache ==
    /\ saveAlertCall[1].pc = "done"
    /\ SaveAlertCache(2, saveAlertCall[1].reportID, saveAlertCall[1].item,
                      saveAlertCall[1].now)

FirstSaveReportSection ==
    /\ NoTakeCall /\ NoAttrCall /\ NoSaveAlertCall
    /\ \E section \in SectionChoices : SaveReportSection(1, section, clock)

RedeliverSaveReportSection ==
    /\ saveSectionCall[1].pc = "done"
    /\ SaveReportSection(2, saveSectionCall[1].item, saveSectionCall[1].now)

NextRedeliver ==
    \/ Tick
    \/ ExpireAlertEntry
    \/ ExpireAttributeCache
    \/ ExpireAlertCache
    \/ ExpireReportSection
    \/ FirstTakeReport
    \/ RedeliverTakeReport
    \/ \E c \in {1, 2} : TakeReportPut(c)
    \/ \E c \in {1, 2} : TakeReportGet(c)
    \/ FirstPutAttributeCache
    \/ RedeliverPutAttributeCache
    \/ FirstSaveAlertCache
    \/ RedeliverSaveAlertCache
    \/ FirstSaveReportSection
    \/ RedeliverSaveReportSection

SpecRedeliver == Init /\ [][NextRedeliver]_vars

\* a call that has been entered runs on: the store answers its put and its get
SpecRedeliverFair ==
    /\ SpecRedeliver
    /\ \A c \in {1, 2} : WF_vars(TakeReportPut(c)) /\ WF_vars(TakeReportGet(c))

(***************************************************************************)
(* Staging: the attribute cache and the two append-only logs of the        *)
(* reports, written by calls for any report within the TTL window of the   *)
(* first; stored payloads can be found undecodable by a later fetch        *)
(***************************************************************************)
\* the staging calls made so far
StageCallsMade ==
    Cardinality({c \in AttrCalls : attrCall[c].pc # "idle"})
        + Cardinality({c \in SaveCalls : saveAlertCall[c].pc # "idle"})
        + Cardinality({c \in SaveCalls : saveSectionCall[c].pc # "idle"})

NextStage ==
    \/ /\ StageCallsMade < MaxStageCalls
       /\ \E c \in AttrCalls : \E reportID \in ReportIDs :
             \E attr \in {attrDst, attrDstLocal} :
                 PutAttributeCache(c, reportID, attr, clock)
    \/ /\ StageCallsMade < MaxStageCalls
       /\ \E c \in SaveCalls : \E reportID \in ReportIDs : \E alert \in Alerts :
             SaveAlertCache(c, reportID, alert, clock)
    \/ /\ StageCallsMade < MaxStageCalls
       /\ \E c \in SaveCalls : \E section \in SectionChoices :
             section.Attribute = attrDst /\ SaveReportSection(c, section, clock)
    \/ CorruptAlertCache
    \/ CorruptReportSection

SpecStage == Init /\ [][NextStage]_vars

(***************************************************************************)
(* C1  Idempotent correlation                                              *)
(***************************************************************************)
\* the TakeReport calls on alert a that have returned a Report
TakeReturned(a) ==
    {c \in Calls : takeCall[c].pc = "done" /\ takeCall[c].alert = a
                   /\ takeCall[c].err = "nil"}

\* no AlertEntry of alert a has been removed by the store's TTL
NoAlertEntryExpiry(a) ==
    \A k \in expired : k[1] # NewAlertEntry(AlertID(a), 0, <<>>).PKey

\* C1: for every alert identity, as long as no entry of it has expired, the
\* TakeReport calls that returned (in any interleaving of their store
\* operations) hold exactly one call with status New, and every other call has
\* status More and carries the ReportID of the New call, never the ReportID it
\* generated itself.
C1_IdempotentCorrelation ==
    \A a \in Alerts :
        (NoAlertEntryExpiry(a) /\ TakeReturned(a) # {}) =>
            \E w \in TakeReturned(a) :
                /\ takeCall[w].report.Status = "New"
                /\ takeCall[w].report.ID = takeCall[w].entry.ReportID
                /\ \A c \in TakeReturned(a) \ {w} :
                      /\ takeCall[c].report.Status = "More"
                      /\ takeCall[c].report.ID = takeCall[w].report.ID
                      /\ takeCall[c].report.ID # takeCall[c].entry.ReportID

\* C1 witness: every call slot was used on one alert and returned, one of the
\* losers having entered the call before the winner's entry was stored
C1_Witness ==
    \E a \in Alerts :
        /\ NoAlertEntryExpiry(a)
        /\ TakeReturned(a) = Calls
        /\ \E w, c \in Calls :
              /\ takeCall[w].report.Status = "New"
              /\ takeCall[c].report.Status = "More"
              /\ takeCall[c].now < takeCall[w].now

(***************************************************************************)
(* C4  One AlertEntry per alert identity, never mutated                    *)
(***************************************************************************)
AlertEntriesOf(table, a) ==
    {r \in table : r.PKey = NewAlertEntry(AlertID(a), 0, <<>>).PKey}

\* C4: in every step, the store holds at most one AlertEntry per alert
\* identity, and an entry that is within its TTL window is still there after
\* the step with the same ReportID and createdAt.
C4_OneEntryNeverMutated ==
    [][\A a \in Alerts :
          /\ Cardinality(AlertEntriesOf(alertEntries', a)) <= 1
          /\ \A r \in AlertEntriesOf(alertEntries, a) :
                r.ExpiresAt >= clock => r \in alertEntries']_vars

\* C4 witness: an entry exists and a later TakeReport call on the same alert has
\* met it and returned
C4_Witness ==
    \E a \in Alerts : \E r \in AlertEntriesOf(alertEntries, a) : \E c \in TakeReturned(a) :
        /\ takeCall[c].report.Status = "More"
        /\ takeCall[c].now > r.CreatedAt
        /\ r.ExpiresAt >= clock

(***************************************************************************)
(* C2  Attribute dedup                                                     *)
(***************************************************************************)
\* the PutAttributeCache calls for report rid and attribute hash h that
\* returned without error
AttrReturned(rid, h) ==
    {c \in AttrCalls : attrCall[c].pc = "done" /\ attrCall[c].err = "nil"
                       /\ attrCall[c].reportID = rid /\ Hash(attrCall[c].attr) = h}

\* no AttributeCache of report rid and hash h has been removed by the store's TTL
NoAttributeCacheExpiry(rid, h) ==
    \A k \in expired : ~(k[1] = toAttributeCacheKey(rid) /\ k[2] = h)

AttrHashes == {Hash(a) : a \in AttrChoices}

\* C2: for every report and attribute hash, as long as no row at that key has
\* expired, the PutAttributeCache calls with that hash that returned without
\* error hold exactly one call that returned true; every other returned false.
C2_AttributeDedup ==
    \A rid \in ReportIDs : \A h \in AttrHashes :
        (NoAttributeCacheExpiry(rid, h) /\ AttrReturned(rid, h) # {}) =>
            \E w \in AttrReturned(rid, h) :
                /\ attrCall[w].created
                /\ \A c \in AttrReturned(rid, h) \ {w} : ~attrCall[c].created

\* C2 witness: every call slot was used for one (report, hash), with attributes
\* that differ in context, and all returned
C2_Witness ==
    \E rid \in ReportIDs : \E h \in AttrHashes :
        /\ NoAttributeCacheExpiry(rid, h)
        /\ AttrReturned(rid, h) = AttrCalls
        /\ \E c, d \in AttrCalls : attrCall[c].attr.Context # attrCall[d].attr.Context

(***************************************************************************)
(* C5  One AttributeCache per (report, attribute hash)                     *)
(***************************************************************************)
\* the attribute a stored row holds (lines 233-239, without the timestamp)
StoredAttr(r) == [Type |-> r.AttrType, Key |-> r.AttrKey, Value |-> r.AttrValue]

\* C5: in every reachable state the store holds at most one AttributeCache row
\* per report and hash of the attribute the row holds.
C5_OneCachePerAttribute ==
    \A r1, r2 \in attributeCaches :
        (r1.PKey = r2.PKey /\ Hash(StoredAttr(r1)) = Hash(StoredAttr(r2))) => r1 = r2

\* C5 witness: a row is stored, within its TTL window, and a second call for
\* the same report and hash, with another context, has returned
C5_Witness ==
    \E r \in attributeCaches : \E c, d \in AttrCalls :
        /\ r.ExpiresAt >= clock
        /\ c # d
        /\ attrCall[c].pc = "done" /\ attrCall[d].pc = "done"
        /\ attrCall[c].created /\ ~attrCall[d].created /\ attrCall[d].err = "nil"
        /\ NewAttributeCache(attrCall[c].reportID, attrCall[c].attr, attrCall[c].now) = r
        /\ attrCall[d].reportID = attrCall[c].reportID
        /\ Hash(attrCall[d].attr) = Hash(attrCall[c].attr)
        /\ attrCall[d].attr.Context # attrCall[c].attr.Context

(***************************************************************************)
(* C7  Redelivery                                                          *)
(***************************************************************************)
\* the step in which the re-executed TakeReport (same alert, same now) does
\* its put, the entry created by the first execution being still stored
ReexecTakeReport ==
    /\ takeCall[1].pc = "done" /\ takeCall[1].err = "nil"
    /\ takeCall[1].entry \in alertEntries
    /\ takeCall[2].pc = "put" /\ takeCall'[2].pc # "put"
    /\ takeCall[2].alert = takeCall[1].alert /\ takeCall[2].now = takeCall[1].now

\* the step of the re-executed PutAttributeCache (same report, attribute and
\* now), the row created by the first execution being still stored
ReexecPutAttributeCache ==
    /\ attrCall[1].pc = "done" /\ attrCall[1].created
    /\ NewAttributeCache(attrCall[1].reportID, attrCall[1].attr, attrCall[1].now)
          \in attributeCaches
    /\ attrCall[2].pc = "idle" /\ attrCall'[2].pc = "done"
    /\ attrCall'[2].reportID = attrCall[1].reportID
    /\ attrCall'[2].attr = attrCall[1].attr
    /\ attrCall'[2].now = attrCall[1].now

\* the step of the re-executed SaveAlertCache (same report, alert and now)
\* that succeeds, the first execution having succeeded
ReexecSaveAlertCache ==
    /\ saveAlertCall[1].pc = "done" /\ saveAlertCall[1].err = "nil"
    /\ saveAlertCall[2].pc = "idle" /\ saveAlertCall'[2].pc = "done"
    /\ saveAlertCall'[2].err = "nil"
    /\ saveAlertCall'[2].reportID = saveAlertCall[1].reportID
    /\ saveAlertCall'[2].item = saveAlertCall[1].item
    /\ saveAlertCall'[2].now = saveAlertCall[1].now

\* the step of the re-executed SaveReportSection (same section and now) that
\* succeeds, the first execution having succeeded
ReexecSaveReportSection ==
    /\ saveSectionCall[1].pc = "done" /\ saveSectionCall[1].err = "nil"
    /\ saveSectionCall[2].pc = "idle" /\ saveSectionCall'[2].pc = "done"
    /\ saveSectionCall'[2].err = "nil"
    /\ saveSectionCall'[2].item = saveSectionCall[1].item
    /\ saveSectionCall'[2].now = saveSectionCall[1].now

\* C7 as stated: re-executing TakeReport, PutAttributeCache, SaveAlertCache or
\* SaveReportSection with the same arguments after it has taken effect leaves
\* the stored records as they were after the single execution.
C7_AsStated ==
    [][(ReexecTakeReport \/ ReexecPutAttributeCache
            \/ ReexecSaveAlertCache \/ ReexecSaveReportSection)
          => UNCHANGED tables]_vars

\* C7 amended: re-executing TakeReport or PutAttributeCache with the same
\* arguments, while the record the first execution created is stored, leaves
\* every stored record as it was; re-executing SaveAlertCache or
\* SaveReportSection with the same arguments keeps every stored row and adds
\* exactly one row with the same payload under the report's partition key.
C7_Redelivery ==
    [][/\ (ReexecTakeReport \/ ReexecPutAttributeCache) => UNCHANGED tables
       /\ ReexecSaveAlertCache =>
             /\ alertCaches \subseteq alertCaches'
             /\ Cardinality(alertCaches') = Cardinality(alertCaches) + 1
             /\ \A r \in alertCaches' \ alertCaches :
                   /\ r.PKey = toAlertCacheKey(saveAlertCall[1].reportID, <<>>)[1]
                   /\ r.AlertData = Marshal(saveAlertCall[1].item)
             /\ UNCHANGED <<alertEntries, attributeCaches, reportSections>>
       /\ ReexecSaveReportSection =>
             /\ reportSections \subseteq reportSections'
             /\ Cardinality(reportSections') = Cardinality(reportSections) + 1
             /\ \A r \in reportSections' \ reportSections :
                   /\ r.PKey = toReportSectionRecord(saveSectionCall[1].reportID, <<>>, <<>>)[1]
                   /\ r.Data = Marshal(saveSectionCall[1].item)
             /\ UNCHANGED <<alertEntries, attributeCaches, alertCaches>>]_vars

\* C7 witness: SaveAlertCache was executed twice with the same arguments and
\* the report holds two rows with the same payload
C7_Witness ==
    /\ saveAlertCall[1].pc = "done" /\ saveAlertCall[1].err = "nil"
    /\ saveAlertCall[2].pc = "done" /\ saveAlertCall[2].err = "nil"
    /\ saveAlertCall[2].item = saveAlertCall[1].item
    /\ saveAlertCall[2].reportID = saveAlertCall[1].reportID
    /\ saveAlertCall[2].now = saveAlertCall[1].now
    /\ \E r1, r2 \in RowsUnder(alertCaches,
                               toAlertCacheKey(saveAlertCall[1].reportID, <<>>)[1]) :
          r1 # r2 /\ r1.AlertData = r2.AlertData

(***************************************************************************)
(* C6  At most one dispatch per attribute and report                       *)
(***************************************************************************)
\* the PutAttributeCache calls for report rid and hash h that returned
\* created = true: the proposals for which an inspection task is scheduled
Dispatched(rid, h) ==
    {c \in AttrCalls : attrCall[c].pc = "done" /\ attrCall[c].created
                       /\ attrCall[c].reportID = rid /\ Hash(attrCall[c].attr) = h}

\* C6 as stated: however many times and whenever an attribute is proposed for a
\* report, at most one of the PutAttributeCache calls returns created = true.
C6_AsStated ==
    \A rid \in ReportIDs : \A h \in AttrHashes : Cardinality(Dispatched(rid, h)) <= 1

\* C6 amended: as long as the store has not removed the AttributeCache row of
\* the report and hash by TTL, at most one of the PutAttributeCache calls
\* proposing that attribute for that report returned created = true.
C6_AtMostOneDispatch ==
    \A rid \in ReportIDs : \A h \in AttrHashes :
        NoAttributeCacheExpiry(rid, h) => Cardinality(Dispatched(rid, h)) <= 1

\* C6 witness: an attribute was proposed for one report at two different
\* times, the row has not expired, and only the first proposal was dispatched
C6_Witness ==
    \E rid \in ReportIDs : \E h \in AttrHashes : \E c, d \in AttrReturned(rid, h) :
        /\ NoAttributeCacheExpiry(rid, h)
        /\ attrCall[c].now < attrCall[d].now
        /\ attrCall[c].created /\ ~attrCall[d].created
        /\ Dispatched(rid, h) = {c}

(***************************************************************************)
(* C3  Dispatch ordering                                                   *)
(***************************************************************************)
\* the decoded body of the i-th request of invocation t
Body(t, i) == Unmarshal(Requests[t][i].MessageBody).value

\* C3: an invocation whose callback returned a TaskResult and that succeeded
\* has published exactly len(contents) + len(newAttributes) messages: one per
\* content to the content queue, in the order returned, then one per new
\* attribute to the attribute queue, in the order returned; and at no moment
\* does an attribute-queue message of an invocation precede a content-queue
\* message of it.
C3_DispatchOrder ==
    \A t \in TaskRuns :
        /\ \A i, j \in 1..Len(Requests[t]) :
              i < j => ~(/\ Requests[t][i].QueueUrl = AttrQueueURL
                         /\ Requests[t][j].QueueUrl = ContentQueueURL)
        /\ (taskRun[t].state = "Succeeded" /\ taskRun[t].ret.result # <<>>) =>
              LET res == taskRun[t].ret.result[1]
                  nc == Len(res.Contents)
                  na == Len(res.NewAttributes)
              IN  /\ Len(Requests[t]) = nc + na
                  /\ \A i \in 1..nc :
                        /\ Requests[t][i].QueueUrl = ContentQueueURL
                        /\ Body(t, i).Content = res.Contents[i]
                  /\ \A j \in 1..na :
                        /\ Requests[t][nc + j].QueueUrl = AttrQueueURL
                        /\ Body(t, nc + j).Attribute = res.NewAttributes[j]

\* C3 witness: an invocation with 2 contents and 1 new attribute has succeeded
\* with 3 requests, and the test's inspector has succeeded with 2
C3_Witness ==
    \E t, u \in TaskRuns :
        /\ taskRun[t].state = "Succeeded" /\ taskRun[t].ret.result # <<>>
        /\ Len(taskRun[t].ret.result[1].Contents) = 2
        /\ Len(taskRun[t].ret.result[1].NewAttributes) = 1
        /\ Len(Requests[t]) = 3
        /\ taskRun[u].state = "Succeeded" /\ taskRun[u].handler = "dummyInspector"
        /\ Len(Requests[u]) = 2
        /\ Requests[u][1].QueueUrl = ContentQueueURL
        /\ Requests[u][2].QueueUrl = AttrQueueURL

(***************************************************************************)
(* C8  Publish failure                                                     *)
(***************************************************************************)
\* the queue of the k-th message of a TaskResult
QueueOf(res, k) == IF k <= Len(res.Contents) THEN ContentQueueURL ELSE AttrQueueURL

\* C8: once the publish of the k-th message of an invocation has failed, the
\* invocation is Failed with an error naming the queue of that message, and
\* its requests are, then and ever after, the k-1 messages published before.
C8_PublishFailure ==
    \A t \in TaskRuns :
        taskRun[t].failedAt > 0 =>
            LET k == taskRun[t].failedAt
                res == taskRun[t].ret.result[1]
            IN  /\ taskRun[t].state = "Failed"
                /\ taskRun[t].err = <<"QueueFailure", QueueOf(res, k)>>
                /\ Len(Requests[t]) = k - 1
                /\ \A i \in 1..(k - 1) :
                      /\ Requests[t][i].QueueUrl = QueueOf(res, i)
                      /\ i <= Len(res.Contents) => Body(t, i).Content = res.Contents[i]
                      /\ i > Len(res.Contents) =>
                            Body(t, i).Attribute = res.NewAttributes[i - Len(res.Contents)]

\* C8 witness: the publish of the third message, the first for the attribute
\* queue, failed after two content messages
C8_Witness ==
    \E t \in TaskRuns :
        /\ taskRun[t].failedAt = 3
        /\ Len(taskRun[t].ret.result[1].Contents) = 2
        /\ taskRun[t].err = <<"QueueFailure", AttrQueueURL>>
        /\ Len(Requests[t]) = 2

(***************************************************************************)
(* C9  Callback error                                                      *)
(***************************************************************************)
\* C9: an invocation whose callback returned an error is Failed with that
\* error, has called the callback exactly once and has published nothing.
C9_CallbackError ==
    \A t \in TaskRuns :
        (taskRun[t].invoked > 0 /\ taskRun[t].ret.err # "nil") =>
            /\ taskRun[t].state = "Failed"
            /\ taskRun[t].err = <<"Handler", taskRun[t].ret.err>>
            /\ taskRun[t].invoked = 1
            /\ Requests[t] = <<>>

\* C9 witness: the callback of one invocation returned an error while the
\* other invocation published its result
C9_Witness ==
    \E t, u \in TaskRuns :
        /\ taskRun[t].state = "Failed" /\ taskRun[t].ret.err # "nil"
        /\ taskRun[u].state = "Succeeded" /\ Requests[u] # <<>>

(***************************************************************************)
(* C10  Nil result                                                         *)
(***************************************************************************)
\* C10: an invocation whose callback returned a nil result and no error is
\* Succeeded with no error and has published nothing; the example inspector
\* declines every attribute that is not an IP address, so its invocations on
\* such attributes end this way.
C10_NilResult ==
    \A t \in TaskRuns :
        /\ (taskRun[t].invoked > 0 /\ taskRun[t].ret = NilResult) =>
              /\ taskRun[t].state = "Succeeded"
              /\ taskRun[t].err = <<>>
              /\ Requests[t] = <<>>
        /\ (/\ taskRun[t].invoked > 0
            /\ taskRun[t].handler = "handler"
            /\ taskRun[t].task.Attribute.Type # "ipaddr") =>
              /\ taskRun[t].state = "Succeeded"
              /\ Requests[t] = <<>>

\* C10 witness: the example inspector declined a username attribute, and on an
\* IP address it produced a content that was published
C10_Witness ==
    \E t, u \in TaskRuns :
        /\ taskRun[t].handler = "handler" /\ taskRun[t].invoked = 1
        /\ taskRun[t].task.Attribute = newAttr
        /\ taskRun[t].ret = NilResult /\ taskRun[t].state = "Succeeded"
        /\ taskRun[u].handler = "handler" /\ taskRun[u].state = "Succeeded"
        /\ Len(Requests[u]) = 1

(***************************************************************************)
(* C11  The error cases of TakeReport                                      *)
(***************************************************************************)
\* the TakeReport calls that have returned
TakeDone == {c \in Calls : takeCall[c].pc = "done"}

\* C11: a TakeReport call returns an error, and then no Report, exactly when
\* its conditional put failed with an error other than "already exists", or
\* failed with "already exists" and the read of the existing entry failed; an
\* "already exists" failure followed by a successful read returns a Report
\* with status More and no error; and every stored AlertEntry is the candidate
\* of a call that returned status New, so a call that returned an error has
\* created no record.
C11_TakeReportErrors ==
    /\ \A c \in TakeDone :
          LET call == takeCall[c]
              putFailed == call.putErr = "StoreFailure"
              readFailed == call.putErr = "ConditionalCheckFailed" /\ call.getErr # "nil"
          IN  /\ (call.err # "nil") <=> (putFailed \/ readFailed)
              /\ (call.err # "nil") <=> (call.report = Nil)
              /\ (call.putErr = "ConditionalCheckFailed" /\ call.getErr = "nil") =>
                    (call.err = "nil" /\ call.report.Status = "More")
    /\ \A r \in alertEntries :
          \E c \in TakeDone :
              /\ takeCall[c].err = "nil"
              /\ takeCall[c].report.Status = "New"
              /\ takeCall[c].entry = r

\* C11 witness: on one alert whose entry is stored, one call has failed in
\* its put with a storage error and another one in its read after "already
\* exists"
C11_Witness ==
    \E a \in Alerts : \E c, d \in TakeDone :
        /\ takeCall[c].alert = a /\ takeCall[d].alert = a
        /\ takeCall[c].err = "put" /\ takeCall[c].putErr = "StoreFailure"
        /\ takeCall[d].err = "get" /\ takeCall[d].putErr = "ConditionalCheckFailed"
        /\ takeCall[c].report = Nil /\ takeCall[d].report = Nil
        /\ AlertEntriesOf(alertEntries, a) # {}

(***************************************************************************)
(* C16  The createdAt of the returned Report                               *)
(***************************************************************************)
\* C16: a TakeReport call that returned status New carries its own now as
\* createdAt; a call that returned status More carries the now of the call
\* that created the entry whose ReportID it returns.
C16_CreatedAt ==
    \A c \in TakeDone :
        takeCall[c].err = "nil" =>
            LET rep == takeCall[c].report
            IN  /\ rep.Status = "New" => rep.CreatedAt = takeCall[c].now
                /\ rep.Status = "More" =>
                      \E w \in TakeDone \ {c} :
                          /\ takeCall[w].err = "nil"
                          /\ takeCall[w].report.Status = "New"
                          /\ takeCall[w].report.ID = rep.ID
                          /\ takeCall[w].alert = takeCall[c].alert
                          /\ rep.CreatedAt = takeCall[w].now

\* C16 witness: a call returned status More with a createdAt earlier than its
\* own now
C16_Witness ==
    \E c \in TakeDone :
        /\ takeCall[c].err = "nil"
        /\ takeCall[c].report.Status = "More"
        /\ takeCall[c].report.CreatedAt < takeCall[c].now

(***************************************************************************)
(* C18  No internal retry                                                  *)
(***************************************************************************)
\* the store operations of the calls made so far
C18_StoreOperations ==
    /\ \A c \in Calls :
          /\ takeCall[c].puts <= 1 /\ takeCall[c].gets <= 1
          /\ takeCall[c].pc = "done" =>
                /\ takeCall[c].puts = 1
                /\ takeCall[c].gets = 1 <=> takeCall[c].putErr = "ConditionalCheckFailed"
    /\ \A c \in AttrCalls :
          attrCall[c].pc = "done" => attrCall[c].puts = 1

\* C18: a TakeReport call never does more than one conditional put and one
\* get, has done exactly one put when it returns (and one get exactly when the
\* put failed with "already exists"), and once entered it returns; a
\* PutAttributeCache call has done exactly one conditional put when it returns,
\* whatever it returns.
C18_NoRetry ==
    /\ []C18_StoreOperations
    /\ \A c \in {1, 2} :
          (takeCall[c].pc \in {"put", "get"}) ~> (takeCall[c].pc = "done")

\* C18 witness: a TakeReport call has returned after its put alone, and the
\* call after it has returned an error after one put and one get
C18_Witness ==
    \E c, d \in Calls :
        /\ takeCall[c].pc = "done" /\ takeCall[c].puts = 1 /\ takeCall[c].gets = 0
        /\ takeCall[d].pc = "done" /\ takeCall[d].err = "get"
        /\ takeCall[d].puts = 1 /\ takeCall[d].gets = 1

(***************************************************************************)
(* C12  The return values of PutAttributeCache                             *)
(***************************************************************************)
\* the PutAttributeCache calls that have returned
AttrDone == {c \in AttrCalls : attrCall[c].pc = "done"}

\* what the returned calls returned, against the outcome of their put
C12_Returns ==
    \A c \in AttrDone :
        /\ attrCall[c].putErr = "ConditionalCheckFailed" =>
              (~attrCall[c].created /\ attrCall[c].err = "nil")
        /\ attrCall[c].putErr = "StoreFailure" =>
              (~attrCall[c].created /\ attrCall[c].err # "nil")
        /\ attrCall[c].created => attrCall[c].putErr = "nil"
        /\ ~(attrCall[c].created /\ attrCall[c].err # "nil")

\* C12: PutAttributeCache returns (false, nil) when its conditional put failed
\* with "already exists", (false, err) when it failed with another storage
\* error, (true, nil) only when the put succeeded, never true with an error;
\* and the step of a call that returns false leaves the stored rows as they
\* were.
C12_PutAttributeCacheReturns ==
    /\ []C12_Returns
    /\ [][\A c \in AttrCalls :
             (attrCall[c].pc = "idle" /\ attrCall'[c].pc = "done"
                 /\ ~attrCall'[c].created) => UNCHANGED attributeCaches]_vars

\* C12 witness: a call has returned (true, nil) after its put succeeded, and a
\* later call for the same report and attribute hash has returned (false, nil)
\* after its put failed with "already exists", the row being still stored
C12_Witness ==
    \E c, d \in AttrDone :
        /\ attrCall[c].putErr = "nil" /\ attrCall[c].created /\ attrCall[c].err = "nil"
        /\ attrCall[d].putErr = "ConditionalCheckFailed"
        /\ ~attrCall[d].created /\ attrCall[d].err = "nil"
        /\ attrCall[d].now > attrCall[c].now
        /\ attributeCaches
              = {NewAttributeCache(attrCall[c].reportID, attrCall[c].attr, attrCall[c].now)}

(***************************************************************************)
(* C15  Round trip of the attribute cache                                  *)
(***************************************************************************)
\* the PutAttributeCache calls that returned true and whose row is stored
AttrStored ==
    {c \in AttrDone :
        /\ attrCall[c].created
        /\ NewAttributeCache(attrCall[c].reportID, attrCall[c].attr, attrCall[c].now)
              \in attributeCaches}

\* the attributes of a fetch result
Fetched(res) == {res.attrs[i] : i \in 1..Len(res.attrs)}

\* C15 as stated: while the row of a PutAttributeCache call that returned true
\* is stored, every successful FetchAttributeCache of its report contains an
\* attribute equal to the one put in type, key, value, context and timestamp.
C15_AsStated ==
    \A c \in AttrStored :
        \A res \in FetchAttributeCache(attrCall[c].reportID) :
            res.err = "nil" => attrCall[c].attr \in Fetched(res)

\* the attribute a fetch gives back for the one put at now
RoundTrip(attr, now) ==
    [attr EXCEPT !.Timestamp = IF attr.Timestamp = <<>> THEN <<now>> ELSE attr.Timestamp]

\* C15 amended: while the row of a PutAttributeCache(reportID, attr, now) call
\* that returned true is stored, every successful FetchAttributeCache of the
\* report contains an attribute with the type, key, value and context of attr
\* and with the timestamp of attr, or now when attr carries none; and a
\* successful fetch returns exactly one attribute per stored row, each with the
\* timestamp of its own row.
C15_RoundTrip ==
    \A rid \in ReportIDs :
        \A res \in FetchAttributeCache(rid) :
            res.err = "nil" =>
                /\ \A c \in AttrStored :
                      attrCall[c].reportID = rid =>
                          RoundTrip(attrCall[c].attr, attrCall[c].now) \in Fetched(res)
                /\ Len(res.attrs)
                      = Cardinality(RowsUnder(attributeCaches, toAttributeCacheKey(rid)))
                /\ \A r \in RowsUnder(attributeCaches, toAttributeCacheKey(rid)) :
                      \E i \in 1..Len(res.attrs) :
                          /\ Hash(res.attrs[i]) = r.SKey
                          /\ res.attrs[i].Timestamp = <<r.Timestamp>>

\* C15 witness: two attributes are cached for one report with different
\* timestamps, one of them put without a timestamp
C15_Witness ==
    \E c, d \in AttrStored :
        /\ attrCall[c].reportID = attrCall[d].reportID
        /\ attrCall[c].attr.Timestamp = <<>>
        /\ RoundTrip(attrCall[c].attr, attrCall[c].now).Timestamp
              # RoundTrip(attrCall[d].attr, attrCall[d].now).Timestamp
        /\ \E res \in FetchAttributeCache(attrCall[c].reportID) : Len(res.attrs) = 2

(***************************************************************************)
(* C19  First writer wins for the attribute cache                          *)
(***************************************************************************)
\* the step in which call c returns (false, nil)
ReturnsSkip(c) ==
    /\ attrCall[c].pc = "idle" /\ attrCall'[c].pc = "done"
    /\ ~attrCall'[c].created /\ attrCall'[c].err = "nil"

\* C19: the step of a PutAttributeCache call that returns (false, nil) leaves
\* the stored rows, and so what FetchAttributeCache can return for any report,
\* as they were; and the row stored for a report and hash is the row of a call
\* that returned true, so a fetch returns its context and timestamp.
C19_FirstWriterWins ==
    /\ [][\A c \in AttrCalls :
             ReturnsSkip(c) =>
                 /\ UNCHANGED attributeCaches
                 /\ \A rid \in ReportIDs :
                       FetchAttributeCache(rid)' = FetchAttributeCache(rid)]_vars
    /\ [](\A r \in attributeCaches :
             \E c \in AttrStored :
                 /\ NewAttributeCache(attrCall[c].reportID, attrCall[c].attr,
                                      attrCall[c].now) = r
                 /\ \A res \in FetchAttributeCache(attrCall[c].reportID) :
                       res.err = "nil" =>
                           \E i \in 1..Len(res.attrs) :
                               /\ Hash(res.attrs[i]) = Hash(attrCall[c].attr)
                               /\ res.attrs[i].Context = attrCall[c].attr.Context
                               /\ res.attrs[i].Timestamp
                                     = RoundTrip(attrCall[c].attr, attrCall[c].now).Timestamp)

\* C19 witness: an attribute was put for a report, a second one with the same
\* hash and another context and timestamp was put later and returned
\* (false, nil), and the row of the first is the one stored
C19_Witness ==
    \E c \in AttrStored : \E d \in AttrDone :
        /\ attrCall[d].reportID = attrCall[c].reportID
        /\ Hash(attrCall[d].attr) = Hash(attrCall[c].attr)
        /\ ~attrCall[d].created /\ attrCall[d].err = "nil"
        /\ attrCall[d].attr.Context # attrCall[c].attr.Context
        /\ RoundTrip(attrCall[d].attr, attrCall[d].now).Timestamp
              # RoundTrip(attrCall[c].attr, attrCall[c].now).Timestamp
        /\ RowsAt(attributeCaches, toAttributeCacheKey(attrCall[d].reportID),
                  Hash(attrCall[d].attr))
              = {NewAttributeCache(attrCall[c].reportID, attrCall[c].attr, attrCall[c].now)}

(***************************************************************************)
(* C17  What the published messages carry                                  *)
(***************************************************************************)
\* C17: every message an invocation has published carries the ReportID of the
\* task of that invocation; a content-queue message carries also the
\* configured author and the attribute of the task; an attribute-queue message
\* carries one of the new attributes the callback returned.
C17_MessageContents ==
    \A t \in TaskRuns : \A i \in 1..Len(Requests[t]) :
        /\ Body(t, i).ReportID = taskRun[t].task.ReportID
        /\ Requests[t][i].QueueUrl \in {ContentQueueURL, AttrQueueURL}
        /\ Requests[t][i].QueueUrl = ContentQueueURL =>
              /\ Body(t, i).Author = Author
              /\ Body(t, i).Attribute = taskRun[t].task.Attribute
        /\ Requests[t][i].QueueUrl = AttrQueueURL =>
              \E j \in 1..Len(taskRun[t].ret.result[1].NewAttributes) :
                  Body(t, i).Attribute = taskRun[t].ret.result[1].NewAttributes[j]

\* C17 witness: two invocations handle tasks of different reports and
\* attributes, and each has published a content message and an attribute
\* message
C17_Witness ==
    \E t, u \in TaskRuns :
        /\ taskRun[t].state = "Succeeded" /\ taskRun[u].state = "Succeeded"
        /\ taskRun[t].task.ReportID # taskRun[u].task.ReportID
        /\ taskRun[t].task.Attribute # taskRun[u].task.Attribute
        /\ \A v \in {t, u} :
              /\ \E i \in 1..Len(Requests[v]) : Requests[v][i].QueueUrl = ContentQueueURL
              /\ \E i \in 1..Len(Requests[v]) : Requests[v][i].QueueUrl = AttrQueueURL

(***************************************************************************)
(* C13  The staging logs are append-only                                   *)
(***************************************************************************)
\* the SaveAlertCache / SaveReportSection calls for report rid that succeeded
AlertSaved(rid) ==
    {c \in SaveCalls : saveAlertCall[c].pc = "done" /\ saveAlertCall[c].err = "nil"
                       /\ saveAlertCall[c].reportID = rid}
SectionSaved(rid) ==
    {c \in SaveCalls : saveSectionCall[c].pc = "done" /\ saveSectionCall[c].err = "nil"
                       /\ saveSectionCall[c].reportID = rid}

\* no staged row of report rid has been removed by the store's TTL
NoStagingExpiry(rid) ==
    \A k \in expired : k[1] # <<"alert/", rid>> /\ k[1] # <<"content/", rid>>

\* the step in which SaveAlertCache / SaveReportSection call c succeeds
SaveAlertSucceeds(c) ==
    /\ saveAlertCall[c].pc = "idle" /\ saveAlertCall'[c].pc = "done"
    /\ saveAlertCall'[c].err = "nil"
SaveSectionSucceeds(c) ==
    /\ saveSectionCall[c].pc = "idle" /\ saveSectionCall'[c].pc = "done"
    /\ saveSectionCall'[c].err = "nil"

\* C13: the step of a successful SaveAlertCache or SaveReportSection call keeps
\* every stored row and adds exactly one row, under the partition key of its
\* report; and for every report none of whose staged rows has expired, a
\* successful FetchAlertCache returns as many alerts as SaveAlertCache calls
\* for the report succeeded, and a successful FetchReportSection as many
\* sections as SaveReportSection calls succeeded.
C13_AppendOnly ==
    /\ [][\A c \in SaveCalls :
             /\ SaveAlertSucceeds(c) =>
                   /\ alertCaches \subseteq alertCaches'
                   /\ Cardinality(alertCaches' \ alertCaches) = 1
                   /\ \A r \in alertCaches' \ alertCaches :
                         r.PKey = <<"alert/", saveAlertCall'[c].reportID>>
             /\ SaveSectionSucceeds(c) =>
                   /\ reportSections \subseteq reportSections'
                   /\ Cardinality(reportSections' \ reportSections) = 1
                   /\ \A r \in reportSections' \ reportSections :
                         r.PKey = <<"content/", saveSectionCall'[c].reportID>>]_vars
    /\ [](\A rid \in ReportIDs :
             NoStagingExpiry(rid) =>
                 /\ \A res \in FetchAlertCache(rid) :
                       res.err = "nil" => Len(res.alerts) = Cardinality(AlertSaved(rid))
                 /\ \A res \in FetchReportSection(rid) :
                       res.err = "nil" => Len(res.sections) = Cardinality(SectionSaved(rid)))

\* C13 witness: one section has been saved twice for a report, and a fetch of
\* the report returns two sections
C13_Witness ==
    \E rid \in ReportIDs : \E c, d \in SectionSaved(rid) :
        /\ c # d
        /\ saveSectionCall[c].item = saveSectionCall[d].item
        /\ NoStagingExpiry(rid)
        /\ \E res \in FetchReportSection(rid) : res.err = "nil" /\ Len(res.sections) = 2

(***************************************************************************)
(* C14  The fetches are fail-fast                                          *)
(***************************************************************************)
\* C14: when a row under the key of a report holds a payload that does not
\* decode, every FetchAlertCache (FetchReportSection) of the report returns an
\* error and no item, in whatever order the store delivers the rows.
C14_FailFast ==
    \A rid \in ReportIDs :
        /\ (\E r \in RowsUnder(alertCaches, <<"alert/", rid>>) : r.AlertData[1] # "json") =>
              \A res \in FetchAlertCache(rid) : res.err # "nil" /\ res.alerts = <<>>
        /\ (\E r \in RowsUnder(reportSections, <<"content/", rid>>) : r.Data[1] # "json") =>
              \A res \in FetchReportSection(rid) : res.err # "nil" /\ res.sections = <<>>

\* C14 witness: a report has two AlertCache rows, one that decodes and one that
\* does not
C14_Witness ==
    \E rid \in ReportIDs : \E r1, r2 \in RowsUnder(alertCaches, <<"alert/", rid>>) :
        /\ r1.AlertData[1] = "json"
        /\ r2.AlertData[1] # "json"
        /\ \E res \in FetchAlertCache(rid) : res.err = "unmarshal"

(***************************************************************************)
(* C20  Scoping by report                                                  *)
(***************************************************************************)
\* the step of a PutAttributeCache, SaveAlertCache or SaveReportSection call
\* for report rid
CallFor(rid) ==
    \/ \E c \in AttrCalls :
          attrCall[c].pc = "idle" /\ attrCall'[c].pc = "done" /\ attrCall'[c].reportID = rid
    \/ \E c \in SaveCalls :
          /\ saveAlertCall[c].pc = "idle" /\ saveAlertCall'[c].pc = "done"
          /\ saveAlertCall'[c].reportID = rid
    \/ \E c \in SaveCalls :
          /\ saveSectionCall[c].pc = "idle" /\ saveSectionCall'[c].pc = "done"
          /\ saveSectionCall'[c].reportID = rid

\* C20: a PutAttributeCache call returns (false, nil) only when a call for the
\* same report and attribute hash has returned true before, whatever is cached
\* for other reports; and the step of a PutAttributeCache, SaveAlertCache or
\* SaveReportSection call for a report leaves what FetchAttributeCache,
\* FetchAlertCache and FetchReportSection can return for every other report
\* as it was.
C20_ScopedByReport ==
    /\ [][\A c \in AttrCalls :
             ReturnsSkip(c) =>
                 \E d \in AttrDone :
                     /\ attrCall[d].created
                     /\ attrCall[d].reportID = attrCall'[c].reportID
                     /\ Hash(attrCall[d].attr) = Hash(attrCall'[c].attr)]_vars
    /\ [][\A r1 \in ReportIDs :
             CallFor(r1) =>
                 \A r2 \in ReportIDs \ {r1} :
                     /\ FetchAttributeCache(r2)' = FetchAttributeCache(r2)
                     /\ FetchAlertCache(r2)' = FetchAlertCache(r2)
                     /\ FetchReportSection(r2)' = FetchReportSection(r2)]_vars

\* C20 witness: one attribute has been put for two reports, both calls have
\* returned (true, nil), and each report has its own row
C20_Witness ==
    \E c, d \in AttrDone :
        /\ attrCall[c].reportID # attrCall[d].reportID
        /\ attrCall[c].attr = attrCall[d].attr
        /\ attrCall[c].created /\ attrCall[d].created
        /\ \A e \in {c, d} :
              \E res \in FetchAttributeCache(attrCall[e].reportID) :
                  res.err = "nil" /\ Len(res.attrs) = 1

====
